---- MODULE Spec2Model ----
(***************************************************************************)
(* Model of the tool-calling agent loop of agent.py: Agent.run, the       *)
(* tool-call parser, the tool invoker, the provider adapters, the demo     *)
(* tools of mock_tools.py and the chat session of chat.py.                 *)
(*                                                                         *)
(* Texts (message contents, model outputs) are sequences of string chunks; *)
(* concatenation of texts is \o.  The delimiters <tool_call> and           *)
(* </tool_call>, a run of whitespace and a JSON document are each one      *)
(* chunk.  Python objects with identity (lists, Message objects) live in   *)
(* heaps, so that aliasing and mutation are expressible.                   *)
(***************************************************************************)
EXTENDS Integers, Sequences, FiniteSets, TLC

\* ------------------------------------------------------------------ bounds
MaxIterationsBound == 2

\* Bounds of the runs against each provider: the length of the histories of
\* every shape, and max_iterations
GatewayMaxLen == 2
GatewayIterationsBound == 1

\* Bound of the concurrent invocations: max_iterations
ConcIterationsBound == 1

\* Bounds of the chat session: the invocations of run, and max_iterations
ChatRuns == 2
ChatIterationsBound == 1

\* ------------------------------------------------------------ Python values
None == "None"

\* class Role(Enum)
USER == "user"
ASSISTANT == "assistant"
SYSTEM == "system"
TOOL_CALL == "tool_call"
TOOL_RESULT == "tool_result"

\* class Message: role, content, tool_name (default None)
Message(role, content, tool_name) ==
  [role |-> role, content |-> content, tool_name |-> tool_name]

\* class Tool: name, description, parameters (the declared schema, kept as the
\* sequence of declared parameter names), function (the handler)
Tool(name, description, parameters, function) ==
  [name |-> name, description |-> description, parameters |-> parameters,
   function |-> function]

\* A value produced by json.loads or returned by a handler.  One record shape
\* for every Python type:
\*   dict : keys, and the values under "name" and "parameters" when present
\*   list : items (the elements, as strings)
\*   str  : items (the characters)
\*   int  : int
NoParams == [type |-> "absent", kw |-> <<>>]
PyDict(keys, name, parameters) ==
  [type |-> "dict", keys |-> keys, name |-> name, parameters |-> parameters,
   items |-> <<>>, int |-> 0]
PyList(items) ==
  [type |-> "list", keys |-> {}, name |-> None, parameters |-> NoParams,
   items |-> items, int |-> 0]
PyStr(chars) ==
  [type |-> "str", keys |-> {}, name |-> None, parameters |-> NoParams,
   items |-> chars, int |-> 0]
PyInt(n) ==
  [type |-> "int", keys |-> {}, name |-> None, parameters |-> NoParams,
   items |-> <<>>, int |-> n]
PyNone ==
  [type |-> "NoneType", keys |-> {}, name |-> None, parameters |-> NoParams,
   items |-> <<>>, int |-> 0]

\* The value of the "parameters" key of a parsed directive
ParamDict(kw) == [type |-> "dict", kw |-> kw]
ParamList == [type |-> "list", kw |-> <<>>]
ParamNone == [type |-> "NoneType", kw |-> <<>>]

\* An exception object: its class and str(e)
Exc(type, msg) == [type |-> type, msg |-> msg]
NoExc == Exc("", <<>>)

\* ------------------------------------------------------------ str(result)
Digit(d) ==
  CASE d = 0 -> "0" [] d = 1 -> "1" [] d = 2 -> "2" [] d = 3 -> "3"
    [] d = 4 -> "4" [] d = 5 -> "5" [] d = 6 -> "6" [] d = 7 -> "7"
    [] d = 8 -> "8" [] d = 9 -> "9"

RECURSIVE Digits(_)
Digits(n) == IF n < 10 THEN <<Digit(n)>> ELSE Digits(n \div 10) \o <<Digit(n % 10)>>

\* Variant of Str: repr(v), which quotes a str
Repr(v) ==
  CASE v.type = "str" -> <<"'">> \o v.items \o <<"'">>
    [] v.type = "int" -> IF v.int < 0 THEN <<"-">> \o Digits(0 - v.int) ELSE Digits(v.int)
    [] v.type = "NoneType" -> <<"None">>
    [] OTHER -> <<"<", v.type, ">">>

\* str(v) as a text: identity on str, decimal digits on int, "None" on None
Str(v) ==
  CASE v.type = "str" -> v.items
    [] v.type = "int" -> IF v.int < 0 THEN <<"-">> \o Digits(0 - v.int) ELSE Digits(v.int)
    [] v.type = "NoneType" -> <<"None">>
    [] OTHER -> <<"<", v.type, ">">>

\* ------------------------------------------------- the tool-call wire format
OPEN == "<tool_call>"
CLOSE == "</tool_call>"
Whitespace == {" ", "\n", "\t"}

\* JSON documents the model may put between the delimiters
J_WEATHER == "{\"name\": \"get_weather\", \"parameters\": {\"location\": \"Tokyo\"}}"
J_DIVIDE == "{\"name\": \"divide_by_secret_number\", \"parameters\": {\"numerator\": 17}}"
J_UNKNOWN == "{\"name\": \"get_time\", \"parameters\": {}}"
J_CUSTOM == "{\"name\": \"custom_tool\", \"parameters\": {}}"
J_NO_PARAMETERS == "{\"name\": \"get_weather\"}"
J_CUSTOM_NO_PARAMETERS == "{\"name\": \"custom_tool\"}"
J_PARAMETERS_LIST == "{\"name\": \"get_weather\", \"parameters\": [\"Tokyo\"]}"
J_PARAMETERS_NULL == "{\"name\": \"divide_by_secret_number\", \"parameters\": null}"
J_WRONG_KEYWORD == "{\"name\": \"get_weather\", \"parameters\": {\"city\": \"Tokyo\"}}"
J_NO_NAME == "{\"tool\": \"get_weather\"}"
J_NUMBER == "42"
J_NULL == "null"
J_STRING == "\"hello\""
J_STRING_NAME == "\"rename\""
J_LIST == "[\"get_weather\"]"
J_LIST_NAME == "[\"name\"]"
NOT_JSON == "get_weather(Tokyo)"

\* json.loads on one chunk: the parsed value, or ok = FALSE for JSONDecodeError
Parsed(v) == [ok |-> TRUE, val |-> v]
JSONDecodeError == [ok |-> FALSE, val |-> PyNone]

json_loads_document(s) ==
  CASE s = J_WEATHER ->
         Parsed(PyDict({"name", "parameters"}, "get_weather",
                       ParamDict([location |-> "Tokyo"])))
    [] s = J_DIVIDE ->
         Parsed(PyDict({"name", "parameters"}, "divide_by_secret_number",
                       ParamDict([numerator |-> "17"])))
    [] s = J_UNKNOWN ->
         Parsed(PyDict({"name", "parameters"}, "get_time", ParamDict(<<>>)))
    [] s = J_CUSTOM ->
         Parsed(PyDict({"name", "parameters"}, "custom_tool", ParamDict(<<>>)))
    [] s = J_NO_PARAMETERS ->
         Parsed(PyDict({"name"}, "get_weather", NoParams))
    [] s = J_CUSTOM_NO_PARAMETERS ->
         Parsed(PyDict({"name"}, "custom_tool", NoParams))
    [] s = J_PARAMETERS_LIST ->
         Parsed(PyDict({"name", "parameters"}, "get_weather", ParamList))
    [] s = J_PARAMETERS_NULL ->
         Parsed(PyDict({"name", "parameters"}, "divide_by_secret_number", ParamNone))
    [] s = J_WRONG_KEYWORD ->
         Parsed(PyDict({"name", "parameters"}, "get_weather",
                       ParamDict([city |-> "Tokyo"])))
    [] s = J_NO_NAME -> Parsed(PyDict({"tool"}, None, NoParams))
    [] s = J_NUMBER -> Parsed(PyInt(42))
    [] s = J_NULL -> Parsed(PyNone)
    [] s = J_STRING -> Parsed(PyStr(<<"h", "e", "l", "l", "o">>))
    [] s = J_STRING_NAME -> Parsed(PyStr(<<"r", "e", "n", "a", "m", "e">>))
    [] s = J_LIST -> Parsed(PyList(<<"get_weather">>))
    [] s = J_LIST_NAME -> Parsed(PyList(<<"name">>))
    [] OTHER -> JSONDecodeError

\* json.loads(text): surrounding whitespace is skipped, then exactly one JSON
\* document must make up the text (an empty text or extra data is an error)
RECURSIVE LStrip(_)
LStrip(t) ==
  IF t # <<>> /\ Head(t) \in Whitespace THEN LStrip(Tail(t)) ELSE t

RECURSIVE RStrip(_)
RStrip(t) ==
  IF t # <<>> /\ t[Len(t)] \in Whitespace THEN RStrip(SubSeq(t, 1, Len(t) - 1)) ELSE t

json_loads(t) ==
  LET body == RStrip(LStrip(t))
  IN IF Len(body) = 1 THEN json_loads_document(body[1]) ELSE JSONDecodeError

\* re.search(r'<tool_call>\s*(.*?)\s*</tool_call>', response, re.DOTALL):
\* the leftmost <tool_call> that has a </tool_call> after it, up to the first
\* </tool_call> after it (non-greedy); group(1) is what lies between without
\* the leading whitespace (greedy \s*) and the trailing whitespace (the lazy
\* group stops as soon as \s*</tool_call> matches).
Positions(t, chunk) == {i \in 1..Len(t) : t[i] = chunk}
Min(S) == CHOOSE m \in S : \A n \in S : m <= n

NoMatch == [found |-> FALSE, group1 |-> <<>>]

\* Variant of re_search: the last delimited region is taken, not the first
re_search_last(response) ==
  LET opens == {o \in Positions(response, OPEN) :
                  \E c \in Positions(response, CLOSE) : c > o}
  IN IF opens = {} THEN NoMatch
     ELSE LET o == CHOOSE m \in opens : \A n \in opens : m >= n
              c == Min({k \in Positions(response, CLOSE) : k > o})
          IN [found |-> TRUE,
              group1 |-> RStrip(LStrip(SubSeq(response, o + 1, c - 1)))]

\* The search described above: first region, enclosed text stripped
re_search(response) ==
  LET opens == {o \in Positions(response, OPEN) :
                  \E c \in Positions(response, CLOSE) : c > o}
  IN IF opens = {} THEN NoMatch
     ELSE LET o == Min(opens)
              c == Min({k \in Positions(response, CLOSE) : k > o})
          IN [found |-> TRUE,
              group1 |-> RStrip(LStrip(SubSeq(response, o + 1, c - 1)))]

\* "name" not in tool_call, on whatever json.loads returned: key membership on
\* a dict, element membership on a list, substring test on a str, TypeError
\* ("argument of type ... is not iterable") on int and None
HasSubSeq(s, w) == \E i \in 1..(Len(s) - Len(w) + 1) : SubSeq(s, i, i + Len(w) - 1) = w
NameChars == <<"n", "a", "m", "e">>
In(v) ==
  CASE v.type = "dict" -> [ok |-> TRUE, val |-> "name" \in v.keys]
    [] v.type = "list" -> [ok |-> TRUE, val |-> \E i \in 1..Len(v.items) : v.items[i] = "name"]
    [] v.type = "str" -> [ok |-> TRUE, val |-> HasSubSeq(v.items, NameChars)]
    [] OTHER -> [ok |-> FALSE, val |-> FALSE]

\* Agent._parse_tool_call: returns None or the loaded value, or raises
Returned(v) == [raised |-> FALSE, val |-> v, exc |-> NoExc]
Raised(e) == [raised |-> TRUE, val |-> PyNone, exc |-> e]
NotIterable(v) == Exc("TypeError", <<"argument of type '", v.type, "' is not iterable">>)

parse_tool_call(response) ==
  LET match == re_search(response)
  IN IF ~match.found THEN Returned(PyNone)
     ELSE LET loaded == json_loads(match.group1)
          IN IF ~loaded.ok THEN Returned(PyNone)
             ELSE LET tool_call == loaded.val
                      present == In(tool_call)
                  IN IF ~present.ok THEN Raised(NotIterable(tool_call))
                     ELSE IF ~present.val THEN Returned(PyNone)
                     ELSE Returned(tool_call)

\* ------------------------------------------------------------ tool handlers
\* What a call tool.function(**params) did: the handler returned val, or the
\* call raised exc (an Exception, while binding the arguments or in the body)
HandlerReturned(v) == [invoked |-> TRUE, raised |-> FALSE, val |-> v, exc |-> NoExc]
HandlerRaised(e) == [invoked |-> TRUE, raised |-> TRUE, val |-> PyNone, exc |-> e]
NotInvoked == [invoked |-> FALSE, raised |-> FALSE, val |-> PyNone, exc |-> NoExc]

\* mock_tools.get_weather(location)
weather_options == <<"sunny", "rainy", "windy", "cloudy", "blizzard", "sandstorm", "plague">>
temp_ranges(weather) ==
  CASE weather = "sunny" -> <<70, 85>>
    [] weather = "rainy" -> <<50, 65>>
    [] weather = "windy" -> <<55, 70>>
    [] weather = "cloudy" -> <<60, 75>>
    [] weather = "blizzard" -> <<10, 32>>
    [] weather = "sandstorm" -> <<85, 110>>
    [] weather = "plague" -> <<65, 75>>

\* ord(location[0].lower()), 'a' for the empty location
OrdFirstLower(location) ==
  CASE location = "Tokyo" -> 116
    [] location = "Paris" -> 112
    [] OTHER -> 97

\* random.randint(lo, hi) is drawn from the two ends of the range
get_weather(location) ==
  LET weather == weather_options[(OrdFirstLower(location) % Len(weather_options)) + 1]
      temp_range == temp_ranges(weather)
  IN {HandlerReturned(PyStr(<<"Weather in ", location, ": ">> \o Digits(temp)
                            \o <<"°F, ", weather>>)) :
        temp \in {temp_range[1], temp_range[2]}}

\* mock_tools.divide_by_secret_number(numerator): numerator / 0
divide_by_secret_number(numerator) ==
  {HandlerRaised(Exc("ZeroDivisionError", <<"division by zero">>))}

\* Tool.function is any Callable: a handler that takes no argument and returns
\* an int or None, or raises
custom_callable ==
  {HandlerReturned(PyInt(72)), HandlerReturned(PyNone),
   HandlerRaised(Exc("ValueError", <<"no data">>))}

\* The parameter names of each handler's signature (all required)
Signature(function) ==
  CASE function = "get_weather" -> {"location"}
    [] function = "divide_by_secret_number" -> {"numerator"}
    [] OTHER -> {}

HandlerBody(function, kw) ==
  CASE function = "get_weather" -> get_weather(kw.location)
    [] function = "divide_by_secret_number" -> divide_by_secret_number(kw.numerator)
    [] OTHER -> custom_callable

\* tool.function(**params): ** needs a mapping, the keywords must be those of
\* the signature and none may be missing (TypeError otherwise), then the body
Invoke(function, params) ==
  IF params.type # "dict"
  THEN {HandlerRaised(Exc("TypeError",
          <<function, "() argument after ** must be a mapping, not ", params.type>>))}
  ELSE IF DOMAIN params.kw \ Signature(function) # {}
  THEN {HandlerRaised(Exc("TypeError",
          <<function, "() got an unexpected keyword argument">>))}
  ELSE IF Signature(function) \ DOMAIN params.kw # {}
  THEN {HandlerRaised(Exc("TypeError",
          <<function, "() missing required positional argument">>))}
  ELSE HandlerBody(function, params.kw)

\* ------------------------------------------------------- Agent._execute_tool
\* Variant of GetParameters: a missing key yields None, not an empty dict
GetParametersOrNone(tool_call) ==
  IF "parameters" \in tool_call.keys THEN tool_call.parameters ELSE ParamNone

\* tool_call.get("parameters", {})
GetParameters(tool_call) ==
  IF "parameters" \in tool_call.keys THEN tool_call.parameters ELSE ParamDict(<<>>)

\* Variant of FirstYielded: the generator is run to its end and the last tool
\* it yields is kept
LastYielded(hits) == CHOOSE m \in hits : \A n \in hits : m >= n

\* next(generator, None) over self.tools in list order: the first tool the
\* generator yields, whatever comes after it
FirstYielded(hits) == Min(hits)

\* Variant of FindTool: an unknown name falls back to the first registered tool
FindToolOrFirst(tools, tool_name) ==
  LET hits == {i \in 1..Len(tools) : tools[i].name = tool_name}
  IN IF hits # {} THEN CHOOSE m \in hits : \A n \in hits : m <= n
     ELSE IF tools = <<>> THEN 0 ELSE 1

\* next((t for t in self.tools if t.name == tool_name), None): the index of
\* the first tool with that name, 0 for None
FindTool(tools, tool_name) ==
  LET hits == {i \in 1..Len(tools) : tools[i].name = tool_name}
  IN IF hits = {} THEN 0 ELSE FirstYielded(hits)

\* What the handler call inside _execute_tool can do for this request
ToolOutcomes(tools, tool_call) ==
  LET i == FindTool(tools, tool_call.name)
  IN IF i = 0 THEN {NotInvoked}
     ELSE Invoke(tools[i].function, GetParameters(tool_call))

NotFoundResult(tool_name) == <<"Error: Tool '", tool_name, "' not found">>
\* Variant of ErrorResult: only str(e) is returned
ErrorResultBare(tool_name, e) == e.msg

ErrorResult(tool_name, e) == <<"Error executing tool '", tool_name, "':", " ">> \o e.msg

\* The string _execute_tool returns, given what the handler call did
execute_tool(tool_call, outcome) ==
  LET tool_name == tool_call.name
  IN IF ~outcome.invoked THEN NotFoundResult(tool_name)
     ELSE IF outcome.raised THEN ErrorResult(tool_name, outcome.exc)
     ELSE Str(outcome.val)

\* --------------------------------------------------------- prompt assembly
\* config.py templates; a {placeholder} is a chunk of its own
GENERIC_SYSTEM_PROMPT ==
  <<"You are ", "{agent_name}", ". ", "{agent_description}", "\n\n", "{custom_prompt}">>
MAX_ITERATIONS_PROMPT ==
  <<"\n", "You have reached the maximum number of tool calls for this conversation.",
    "\n", "The conversation history contains all the tool results gathered so far.",
    "\n", "Based on the information available, provide the best final answer you can to the user's question.",
    "\n", "Do NOT attempt to call any more tools. Just synthesize the information you have and respond directly.",
    "\n">>
TOOL_INSTRUCTIONS_HEAD ==
  <<"\n", "You have access to the following tools that you MAY use when particularly relevant:",
    "\n\n">>
TOOL_INSTRUCTIONS_TAIL ==
  <<"\n\n", "To call a tool, respond with EXACTLY this format:", "\n", OPEN, "\n",
    "{\"name\": \"tool_name\", \"parameters\": {\"param1\": \"value1\", \"param2\": \"value2\"}}",
    "\n", CLOSE, "\n\n", "Important guidelines:", "\n",
    "- Only use tools when they are specifically relevant and necessary to answer the user's question",
    "\n",
    "- You can respond directly without using any tools if you already have sufficient information",
    "\n",
    "- Only call ONE tool at a time and wait for its result before deciding the next step",
    "\n",
    "- If you need more information from the user to use a tool effectively, ask them first",
    "\n">>

\* Agent._format_tool_description
RECURSIVE ParamLines(_)
ParamLines(parameters) ==
  IF parameters = <<>> THEN <<>>
  ELSE LET param == Head(parameters)
           line == <<"    - ", param.name, " (", param.type, ", ",
                     IF param.required THEN "(required)" ELSE "(optional)",
                     "): ", param.description>>
       IN line \o (IF Tail(parameters) = <<>> THEN <<>> ELSE <<"\n">>)
               \o ParamLines(Tail(parameters))

format_tool_description(tool) ==
  <<"  ", tool.name, ": ", tool.description, "\n", "    Parameters:", "\n">>
    \o (IF tool.parameters = <<>> THEN <<"    (no parameters)">>
        ELSE ParamLines(tool.parameters))

RECURSIVE JoinDescriptions(_)
JoinDescriptions(tools) ==
  IF tools = <<>> THEN <<>>
  ELSE format_tool_description(Head(tools))
         \o (IF Tail(tools) = <<>> THEN <<>> ELSE <<"\n\n">>)
         \o JoinDescriptions(Tail(tools))

\* Agent._build_system_prompt: the formatted template, then the tool section
\* when tools exist
build_system_prompt(agent) ==
  LET base_prompt == <<"You are ", agent.agent_name, ". ", agent.agent_description,
                       "\n\n", agent.custom_system_prompt>>
  IN IF agent.tools = <<>> THEN base_prompt
     ELSE base_prompt \o <<"\n\n">> \o TOOL_INSTRUCTIONS_HEAD
            \o JoinDescriptions(agent.tools) \o TOOL_INSTRUCTIONS_TAIL

\* The system message of the forced final call (agent.py lines 304-307): the
\* unformatted template, a blank line, the out-of-budget instruction
MaxIterationsSystemPrompt == GENERIC_SYSTEM_PROMPT \o <<"\n\n">> \o MAX_ITERATIONS_PROMPT

\* ------------------------------------------------------------------ inputs
Param(name, type, description) ==
  [name |-> name, type |-> type, required |-> TRUE, description |-> description]

WeatherTool ==
  Tool("get_weather", "Get current weather conditions for any location",
       <<Param("location", "string", "The location to get weather for")>>, "get_weather")
DivideTool ==
  Tool("divide_by_secret_number",
       "Divides a number by a secret number and returns the result",
       <<Param("numerator", "number", "The number to be divided")>>,
       "divide_by_secret_number")
CustomTool == Tool("custom_tool", "A tool of the embedding program", <<>>, "custom_callable")
\* A tool registered under a name that is already taken, with another handler
ShadowedTool ==
  Tool("get_weather", "A second tool under a registered name", <<>>, "custom_callable")

\* The registries an Agent is constructed with: none (test_anthropic.py), a
\* populated one (chat.py), and one with two tools of the same name, which
\* __init__ stores like any other list (self.tools = tools or [])
Registries == {<<>>, <<WeatherTool, DivideTool, CustomTool>>, <<WeatherTool, ShadowedTool>>}

\* config.Provider and the members of config.Model that the programs select
OPENAI == "openai"
GEMINI == "gemini"
ANTHROPIC == "anthropic"
GPT_5_MINI == [model_name |-> "gpt-5-mini", provider |-> OPENAI]
GEMINI_2_5_FLASH == [model_name |-> "gemini-2.5-flash", provider |-> GEMINI]
CLAUDE_SONNET == [model_name |-> "claude-sonnet-4-20250514", provider |-> ANTHROPIC]
Models == {GPT_5_MINI, GEMINI_2_5_FLASH, CLAUDE_SONNET}

\* Agent.__init__: the fields of self
NewAgent(tools, max_iterations) ==
  [tools |-> tools, model |-> GPT_5_MINI, max_iterations |-> max_iterations,
   max_tokens |-> 4096,
   temperature |-> "0.4", agent_name |-> "Travel Assistant",
   agent_description |-> "A helpful travel planning assistant.",
   custom_system_prompt |-> "Your goal is to be as helpful as possible to the user."]

\* The histories a caller passes to run
Question == <<"What's the weather in Tokyo?">>
Histories ==
  {<<>>,
   <<Message(USER, Question, None)>>,
   <<Message(USER, <<"Hi">>, None), Message(SYSTEM, <<"Answer briefly.">>, None),
     Message(ASSISTANT, <<"Hello.">>, None), Message(USER, Question, None)>>}

\* The texts the model gateway may return
Block(body) == <<OPEN, "\n", body, "\n", CLOSE>>
T_PLAIN == <<"It is 72 degrees in Tokyo.">>
T_UNCLOSED == <<"Checking. ", OPEN, J_WEATHER>>
T_EMPTY_BLOCK == <<OPEN, " ", CLOSE>>
T_TWO_BLOCKS == <<OPEN, NOT_JSON, CLOSE, " ", OPEN, J_WEATHER, CLOSE>>
T_TWO_CALLS == <<OPEN, J_WEATHER, CLOSE, "\n", OPEN, J_DIVIDE, CLOSE>>
LLMOutputs ==
  {T_PLAIN, T_UNCLOSED, T_EMPTY_BLOCK, T_TWO_BLOCKS, T_TWO_CALLS,
   <<"Let me check the weather. ">> \o Block(J_WEATHER),
   <<OPEN, J_DIVIDE, CLOSE, " I will divide.">>}
  \cup {Block(j) : j \in {J_UNKNOWN, J_CUSTOM, J_NO_PARAMETERS, J_CUSTOM_NO_PARAMETERS,
                           J_PARAMETERS_LIST,
                           J_PARAMETERS_NULL, J_WRONG_KEYWORD, J_NO_NAME, J_NUMBER,
                           J_NULL, J_STRING, J_STRING_NAME, J_LIST, J_LIST_NAME,
                           NOT_JSON}}

\* The texts drawn for the forced final call, whose text run returns without
\* looking into it: one without a block, one with a well-formed block
FinalOutputs == {T_PLAIN, <<"Let me check the weather. ">> \o Block(J_WEATHER)}

\* A provider or transport error raised by the client library inside _call_llm
GatewayError == Exc("APIError", <<"model gateway failure">>)

\* ------------------------------------------------------------------- state
VARIABLES
  self,               \* the Agent: tools and configuration
  heap,               \* the Message objects, by identity (index)
  lists,              \* the list objects: identity -> sequence of Message ids
  internal_messages,  \* run's local: the list object it works on
  final_messages,     \* run's local: the list object of the forced call
  pc,                 \* where run is: start, loop, execute, returned, raised
  iteration,          \* loop iterations completed
  response_text,      \* run's local: the last text of a loop model call
  tool_call,          \* run's local: the parsed directive
  returned,           \* the Message run returned
  exception,          \* the exception run raised
  input,              \* the caller's list and Message objects as passed in
  calls,              \* the model calls issued: kind, the list passed, outcome
  executions,         \* the _execute_tool calls: request, what the handler call
                      \* did, the tool_result Message, the model calls so far
  current,            \* the invocation of run that is executing
  parked,             \* the locals of the invocations that are not executing
  owner               \* for each Message object, the invocation that created it
                      \* (0: the caller)

vars == <<self, heap, lists, internal_messages, final_messages, pc, iteration,
          response_text, tool_call, returned, exception, input, calls, executions,
          current, parked, owner>>

\* The list object the caller passes as messages
CallerList == input.list
NoMessage == Message(None, <<>>, None)

\* A local that is not bound to a list object yet
NoList == 0

\* The Message objects of a caller, none of them created by an invocation
ByCaller(history) == [i \in 1..Len(history) |-> 0]

\* An Agent has been constructed and run(messages) has been entered with the
\* caller's list
Entered(agent, history) ==
  /\ self = agent
  /\ heap = history
  /\ lists = <<[i \in 1..Len(history) |-> i]>>
  /\ owner = ByCaller(history)
  /\ internal_messages = NoList
  /\ final_messages = NoList
  /\ pc = "start"
  /\ iteration = 0
  /\ response_text = <<>>
  /\ tool_call = PyNone
  /\ returned = NoMessage
  /\ exception = NoExc
  /\ input = [list |-> 1, ids |-> lists[1], objects |-> heap]
  /\ calls = <<>>
  /\ executions = <<>>
  /\ current = 1
  /\ parked = <<>>

Init ==
  \E tools \in Registries, max_iterations \in 0..MaxIterationsBound, history \in Histories :
    Entered(NewAgent(tools, max_iterations), history)

\* ---------------------------------------------------------- list operations
\* Variant of list_copy: no copy is made, run works on the caller's list object
list_alias(source) == source

\* messages.copy(): a new list object with the same elements
list_copy(source) == Len(lists) + 1

\* The store of list objects after binding a list object to its elements
StoreList(ls, ref, ids) ==
  IF ref \in DOMAIN ls THEN [ls EXCEPT ![ref] = ids] ELSE Append(ls, ids)

\* list.append(message) / list.insert(0, message) on a list object, for a
\* Message object created now
NewId(h) == Len(h) + 1
\* Variant of AppendNew: the new Message is put before the last one
AppendNewBeforeLast(ls, ref, h) ==
  [ls EXCEPT ![ref] = IF @ = <<>> THEN <<NewId(h)>>
                      ELSE SubSeq(@, 1, Len(@) - 1) \o <<NewId(h), @[Len(@)]>>]

AppendNew(ls, ref, h) == [ls EXCEPT ![ref] = Append(@, NewId(h))]

\* Variant of InsertFirstNew: the new Message goes to the end of the list
InsertLastNew(ls, ref, h) == [ls EXCEPT ![ref] = Append(@, NewId(h))]

InsertFirstNew(ls, ref, h) == [ls EXCEPT ![ref] = <<NewId(h)>> \o @]

\* Variant of WithoutSystem: only a system message at the front is dropped
WithoutFirstSystem(h, ids) ==
  IF ids # <<>> /\ h[Head(ids)].role = SYSTEM THEN Tail(ids) ELSE ids

\* [m for m in internal_messages if m.role != Role.SYSTEM]
RECURSIVE WithoutSystem(_, _)
WithoutSystem(h, ids) ==
  IF ids = <<>> THEN <<>>
  ELSE (IF h[Head(ids)].role # SYSTEM THEN <<Head(ids)>> ELSE <<>>)
         \o WithoutSystem(h, Tail(ids))

\* ---------------------------------------------------- model gateway adapters
\* The Message objects of a list, in its order
Contents(h, ids) == [i \in 1..Len(ids) |-> h[ids[i]]]

\* What an adapter hands to its client library: the system parameter where the
\* API has one, the conversation turns, and for Gemini the text passed to
\* send_message
Turn(role, content) == [role |-> role, content |-> content]
Request(provider, has_system, system, turns, message) ==
  [provider |-> provider, has_system |-> has_system, system |-> system,
   turns |-> turns, message |-> message]

\* Variant of ToolResultContent: the result alone, without the tool's name
ToolResultContentBare(m) == m.content

\* f"Tool result from {m.tool_name}:\n{m.content}"
ToolResultContent(m) == <<"Tool result from ", m.tool_name, ":", "\n">> \o m.content

\* [m.content for m in messages if m.role == Role.SYSTEM]
RECURSIVE SystemMessages(_)
SystemMessages(messages) ==
  IF messages = <<>> THEN <<>>
  ELSE (IF Head(messages).role = SYSTEM THEN <<Head(messages).content>> ELSE <<>>)
         \o SystemMessages(Tail(messages))

\* "\n\n".join(texts)
RECURSIVE JoinBlankLine(_)
JoinBlankLine(texts) ==
  IF texts = <<>> THEN <<>>
  ELSE Head(texts) \o (IF Tail(texts) = <<>> THEN <<>> ELSE <<"\n\n">>)
         \o JoinBlankLine(Tail(texts))

\* Agent._call_openai: every message becomes a turn, system messages included
RECURSIVE openai_formatted(_)
openai_formatted(messages) ==
  IF messages = <<>> THEN <<>>
  ELSE LET m == Head(messages)
       IN (CASE m.role \in {USER, ASSISTANT, SYSTEM} -> <<Turn(m.role, m.content)>>
             [] m.role = TOOL_CALL -> <<Turn("assistant", m.content)>>
             [] m.role = TOOL_RESULT -> <<Turn("user", ToolResultContent(m))>>
             [] OTHER -> <<>>)
            \o openai_formatted(Tail(messages))

call_openai(messages) == Request(OPENAI, FALSE, <<>>, openai_formatted(messages), <<>>)

\* Agent._call_anthropic: the system messages joined into the system
\* parameter (None when there are none), the other messages as turns
RECURSIVE anthropic_formatted(_)
anthropic_formatted(messages) ==
  IF messages = <<>> THEN <<>>
  ELSE LET m == Head(messages)
       IN (CASE m.role \in {USER, ASSISTANT} -> <<Turn(m.role, m.content)>>
             [] m.role = TOOL_CALL -> <<Turn("assistant", m.content)>>
             [] m.role = TOOL_RESULT -> <<Turn("user", ToolResultContent(m))>>
             [] OTHER -> <<>>)
            \o anthropic_formatted(Tail(messages))

call_anthropic(messages) ==
  LET system_messages == SystemMessages(messages)
  IN Request(ANTHROPIC, system_messages # <<>>, JoinBlankLine(system_messages),
             anthropic_formatted(messages), <<>>)

\* Agent._call_gemini, the loop over messages from index i on: acc holds
\* history, last_message (None until set) and system_prepended
RECURSIVE gemini_loop(_, _, _, _)
gemini_loop(messages, i, system_prefix, acc) ==
  IF i > Len(messages) THEN acc
  ELSE LET m == messages[i]
           is_last == (i = Len(messages))
           prepend == m.role = USER /\ ~acc.system_prepended /\ system_prefix # <<>>
           gemini_role == IF m.role \in {ASSISTANT, TOOL_CALL} THEN "model" ELSE "user"
           content == CASE m.role = USER ->
                             IF prepend THEN system_prefix \o m.content ELSE m.content
                        [] m.role \in {ASSISTANT, TOOL_CALL} -> m.content
                        [] m.role = TOOL_RESULT -> ToolResultContent(m)
                        [] OTHER -> <<>>
       IN IF m.role \notin {USER, ASSISTANT, TOOL_CALL, TOOL_RESULT}
          THEN gemini_loop(messages, i + 1, system_prefix, acc)
          ELSE gemini_loop(messages, i + 1, system_prefix,
                 [history |-> IF is_last THEN acc.history
                              ELSE Append(acc.history, Turn(gemini_role, content)),
                  last_message |-> IF is_last THEN [is_none |-> FALSE, text |-> content]
                                   ELSE acc.last_message,
                  system_prepended |-> acc.system_prepended \/ prepend])

\* Agent._call_gemini: the system messages are prepended to the first user
\* message; the last message is sent with send_message(last_message or ""),
\* the ones before it are the chat's history
call_gemini(messages) ==
  LET system_messages == SystemMessages(messages)
      system_prefix == IF system_messages # <<>>
                       THEN JoinBlankLine(system_messages) \o <<"\n\n">> ELSE <<>>
      done == gemini_loop(messages, 1, system_prefix,
                          [history |-> <<>>,
                           last_message |-> [is_none |-> TRUE, text |-> <<>>],
                           system_prepended |-> FALSE])
  IN Request(GEMINI, FALSE, <<>>, done.history,
             IF done.last_message.is_none THEN <<>> ELSE done.last_message.text)

\* Agent._call_llm: the adapter of the model's provider
call_llm(model, messages) ==
  CASE model.provider = OPENAI -> call_openai(messages)
    [] model.provider = GEMINI -> call_gemini(messages)
    [] model.provider = ANTHROPIC -> call_anthropic(messages)

\* ------------------------------------------------------------- Agent.run
\* bool(v) for the test "if tool_call:"
Truthy(v) ==
  CASE v.type = "dict" -> v.keys # {}
    [] v.type \in {"list", "str"} -> v.items # <<>>
    [] v.type = "int" -> v.int # 0
    [] OTHER -> FALSE

\* tool_call["name"]
SubscriptName(v) ==
  CASE v.type = "dict" ->
         IF "name" \in v.keys THEN [raised |-> FALSE, name |-> v.name, exc |-> NoExc]
         ELSE [raised |-> TRUE, name |-> None, exc |-> Exc("KeyError", <<"'name'">>)]
    [] v.type = "list" ->
         [raised |-> TRUE, name |-> None,
          exc |-> Exc("TypeError", <<"list indices must be integers or slices, not str">>)]
    [] v.type = "str" ->
         [raised |-> TRUE, name |-> None,
          exc |-> Exc("TypeError", <<"string indices must be integers, not 'str'">>)]
    [] OTHER ->
         [raised |-> TRUE, name |-> None,
          exc |-> Exc("TypeError", <<"'", v.type, "' object is not subscriptable">>)]

\* A model call: the list passed to _call_llm, what the adapter made of it,
\* and whether the call raised or which text it returned
Call(kind, ref, ids, request, failed, text) ==
  [kind |-> kind, list |-> ref, ids |-> ids, request |-> request, failed |-> failed,
   text |-> text]

\* Variant of InRange: one iteration too many
InRangeInclusive(done, max_iterations) == done <= max_iterations

\* for iteration in range(self.max_iterations): the loop body runs again
InRange(done, max_iterations) == done < max_iterations

\* Lines 265-271: copy the caller's list, insert the system prompt if tools exist
Start ==
  /\ pc = "start"
  /\ LET ref == list_copy(CallerList)
         copied == StoreList(lists, ref, lists[CallerList])
     IN /\ internal_messages' = ref
        /\ IF self.tools # <<>>
           THEN /\ heap' = Append(heap, Message(SYSTEM, build_system_prompt(self), None))
                /\ owner' = Append(owner, current)
                /\ lists' = InsertFirstNew(copied, ref, heap)
           ELSE /\ heap' = heap
                /\ owner' = owner
                /\ lists' = copied
  /\ pc' = "loop"
  /\ UNCHANGED <<self, final_messages, iteration, response_text, tool_call, returned,
                 exception, input, calls, executions, current, parked>>

\* Variant of LoopCallFails: the first failure of a model call is swallowed
\* and the call is issued again
LoopCallFailsRetryOnce ==
  /\ pc = "loop"
  /\ InRange(iteration, self.max_iterations)
  /\ calls' = Append(calls, Call("loop", internal_messages, lists[internal_messages],
                                 call_llm(self.model,
                                          Contents(heap, lists[internal_messages])),
                                 TRUE, <<>>))
  /\ IF \E k \in 1..Len(calls) : calls[k].failed
     THEN exception' = GatewayError /\ pc' = "raised"
     ELSE UNCHANGED <<exception, pc>>
  /\ UNCHANGED <<self, heap, lists, internal_messages, final_messages, iteration,
                 response_text, tool_call, returned, input, executions, current, parked,
                 owner>>

\* Lines 275-277: a loop iteration whose model call raises; run does not catch
LoopCallFails ==
  /\ pc = "loop"
  /\ InRange(iteration, self.max_iterations)
  /\ calls' = Append(calls, Call("loop", internal_messages, lists[internal_messages],
                                 call_llm(self.model,
                                          Contents(heap, lists[internal_messages])),
                                 TRUE, <<>>))
  /\ exception' = GatewayError
  /\ pc' = "raised"
  /\ UNCHANGED <<self, heap, lists, internal_messages, final_messages, iteration,
                 response_text, tool_call, returned, input, executions, current, parked,
                 owner>>

\* Lines 275-300 up to the tool execution: the model call returns text, the
\* text is parsed; no call -> return it; a call -> append the tool_call Message
LoopCallReturns(text) ==
  /\ pc = "loop"
  /\ InRange(iteration, self.max_iterations)
  /\ calls' = Append(calls, Call("loop", internal_messages, lists[internal_messages],
                                 call_llm(self.model,
                                          Contents(heap, lists[internal_messages])),
                                 FALSE, text))
  /\ response_text' = text
  /\ LET parsed == parse_tool_call(text)
         name == SubscriptName(parsed.val)
     IN IF parsed.raised
        THEN /\ exception' = parsed.exc
             /\ pc' = "raised"
             /\ UNCHANGED <<heap, lists, owner, tool_call, returned>>
        ELSE IF ~Truthy(parsed.val)
        THEN /\ returned' = Message(ASSISTANT, text, None)
             /\ pc' = "returned"
             /\ tool_call' = parsed.val
             /\ UNCHANGED <<heap, lists, owner, exception>>
        ELSE IF name.raised
        THEN /\ exception' = name.exc
             /\ pc' = "raised"
             /\ tool_call' = parsed.val
             /\ UNCHANGED <<heap, lists, owner, returned>>
        ELSE /\ heap' = Append(heap, Message(TOOL_CALL, text, name.name))
             /\ owner' = Append(owner, current)
             /\ lists' = AppendNew(lists, internal_messages, heap)
             /\ tool_call' = parsed.val
             /\ pc' = "execute"
             /\ UNCHANGED <<returned, exception>>
  /\ UNCHANGED <<self, internal_messages, final_messages, iteration, input, executions,
                 current, parked>>

\* Variant of ExecuteTool: the loop goes on to the next model call without
\* waiting for the tool's result, which never enters the history
ExecuteToolDetached ==
  /\ pc = "execute"
  /\ \E outcome \in ToolOutcomes(self.tools, tool_call) :
       /\ heap' = Append(heap, Message(TOOL_RESULT, execute_tool(tool_call, outcome),
                                       tool_call.name))
       /\ lists' = lists
       /\ owner' = Append(owner, current)
       /\ executions' = Append(executions,
                              [request |-> tool_call, outcome |-> outcome,
                               tool |-> FindTool(self.tools, tool_call.name),
                               message |-> NewId(heap), calls |-> Len(calls)])
  /\ iteration' = iteration + 1
  /\ pc' = "loop"
  /\ UNCHANGED <<self, internal_messages, final_messages, response_text, tool_call,
                 returned, exception, input, calls, current, parked>>

\* Lines 288-297: _execute_tool, append the tool_result Message, next iteration
ExecuteTool ==
  /\ pc = "execute"
  /\ \E outcome \in ToolOutcomes(self.tools, tool_call) :
       /\ heap' = Append(heap, Message(TOOL_RESULT, execute_tool(tool_call, outcome),
                                       tool_call.name))
       /\ lists' = AppendNew(lists, internal_messages, heap)
       /\ owner' = Append(owner, current)
       /\ executions' = Append(executions,
                              [request |-> tool_call, outcome |-> outcome,
                               tool |-> FindTool(self.tools, tool_call.name),
                               message |-> NewId(heap), calls |-> Len(calls)])
  /\ iteration' = iteration + 1
  /\ pc' = "loop"
  /\ UNCHANGED <<self, internal_messages, final_messages, response_text, tool_call,
                 returned, exception, input, calls, current, parked>>

\* Lines 302-307: the list of the forced call, a new list object
ForcedList ==
  Append(lists, <<NewId(heap)>> \o WithoutSystem(heap, lists[internal_messages]))

\* Lines 302-309, the forced call returns: its text is the answer
ForcedCallReturns(text) ==
  /\ pc = "loop"
  /\ ~InRange(iteration, self.max_iterations)
  /\ heap' = Append(heap, Message(SYSTEM, MaxIterationsSystemPrompt, None))
  /\ owner' = Append(owner, current)
  /\ lists' = ForcedList
  /\ final_messages' = Len(lists')
  /\ calls' = Append(calls, Call("forced", final_messages', lists'[final_messages'],
                                 call_llm(self.model,
                                          Contents(heap', lists'[final_messages'])),
                                 FALSE, text))
  /\ returned' = Message(ASSISTANT, text, None)
  /\ pc' = "returned"
  /\ UNCHANGED <<self, internal_messages, iteration, response_text, tool_call,
                 exception, input, executions, current, parked>>

\* Lines 302-309, the forced call raises
ForcedCallFails ==
  /\ pc = "loop"
  /\ ~InRange(iteration, self.max_iterations)
  /\ heap' = Append(heap, Message(SYSTEM, MaxIterationsSystemPrompt, None))
  /\ owner' = Append(owner, current)
  /\ lists' = ForcedList
  /\ final_messages' = Len(lists')
  /\ calls' = Append(calls, Call("forced", final_messages', lists'[final_messages'],
                                 call_llm(self.model,
                                          Contents(heap', lists'[final_messages'])),
                                 TRUE, <<>>))
  /\ exception' = GatewayError
  /\ pc' = "raised"
  /\ UNCHANGED <<self, internal_messages, iteration, response_text, tool_call,
                 returned, input, executions, current, parked>>

Next ==
  \/ Start
  \/ LoopCallFails
  \/ \E text \in LLMOutputs : LoopCallReturns(text)
  \/ ExecuteTool
  \/ \E text \in FinalOutputs : ForcedCallReturns(text)
  \/ ForcedCallFails

Spec == Init /\ [][Next]_vars

\* ----------------------------------------- runs against each model provider
\* Histories of every shape up to a length: any mix of user, system and
\* assistant messages, besides the ones above
GatewayMessages ==
  {Message(USER, <<"Hi">>, None), Message(SYSTEM, <<"Answer briefly.">>, None),
   Message(ASSISTANT, <<"Hello.">>, None)}
GatewayHistories ==
  Histories \cup UNION {[1..n -> GatewayMessages] : n \in 0..GatewayMaxLen}
GatewayOutputs == {T_PLAIN, <<"Let me check the weather. ">> \o Block(J_WEATHER)}

InitGateway ==
  \E tools \in Registries, max_iterations \in 0..GatewayIterationsBound,
     model \in Models, history \in GatewayHistories :
    Entered([NewAgent(tools, max_iterations) EXCEPT !.model = model], history)

NextGateway ==
  \/ Start
  \/ LoopCallFails
  \/ \E text \in GatewayOutputs : LoopCallReturns(text)
  \/ ExecuteTool
  \/ \E text \in GatewayOutputs : ForcedCallReturns(text)
  \/ ForcedCallFails

SpecGateway == InitGateway /\ [][NextGateway]_vars

\* ------------------------------------------- concurrent invocations of run
\* Two threads call run on one Agent.  The interpreter executes one thread at
\* a time and may switch between them at any point; the variables for run's
\* locals hold those of the executing invocation, parked those of the other.
\* The Agent, the Message objects and the list objects are shared.
Locals ==
  [internal_messages |-> internal_messages, final_messages |-> final_messages,
   pc |-> pc, iteration |-> iteration, response_text |-> response_text,
   tool_call |-> tool_call, returned |-> returned, exception |-> exception,
   input |-> input, calls |-> calls, executions |-> executions]

\* The locals of an invocation that has just been entered with a list object
EnteredLocals(ref) ==
  [internal_messages |-> NoList, final_messages |-> NoList, pc |-> "start",
   iteration |-> 0, response_text |-> <<>>, tool_call |-> PyNone,
   returned |-> NoMessage, exception |-> NoExc,
   input |-> [list |-> ref, ids |-> lists[ref], objects |-> heap],
   calls |-> <<>>, executions |-> <<>>]

ConcHistories ==
  {<<>>,
   <<Message(USER, <<"Hi">>, None), Message(SYSTEM, <<"Answer briefly.">>, None),
     Message(ASSISTANT, <<"Hello.">>, None), Message(USER, Question, None)>>}
ConcOutputs == {T_PLAIN, <<OPEN, J_DIVIDE, CLOSE, " I will divide.">>}

\* The two callers pass the same list object, or each its own
InitConc ==
  \E tools \in Registries, max_iterations \in 0..ConcIterationsBound,
     first \in {<<Message(USER, Question, None)>>}, second \in ConcHistories,
     same \in BOOLEAN :
    /\ same => second = <<>>
    /\ self = NewAgent(tools, max_iterations)
    /\ heap = first \o second
    /\ lists = IF same THEN <<[i \in 1..Len(first) |-> i]>>
               ELSE <<[i \in 1..Len(first) |-> i], [i \in 1..Len(second) |-> Len(first) + i]>>
    /\ owner = ByCaller(heap)
    /\ current = 1
    /\ internal_messages = NoList
    /\ final_messages = NoList
    /\ pc = "start"
    /\ iteration = 0
    /\ response_text = <<>>
    /\ tool_call = PyNone
    /\ returned = NoMessage
    /\ exception = NoExc
    /\ input = [list |-> 1, ids |-> lists[1], objects |-> heap]
    /\ calls = <<>>
    /\ executions = <<>>
    /\ parked = (2 :> EnteredLocals(IF same THEN 1 ELSE 2))

\* The interpreter suspends the executing thread and resumes thread r
Switch(r) ==
  /\ r \in DOMAIN parked
  /\ parked' = [q \in (DOMAIN parked \ {r}) \cup {current} |->
                  IF q = current THEN Locals ELSE parked[q]]
  /\ current' = r
  /\ internal_messages' = parked[r].internal_messages
  /\ final_messages' = parked[r].final_messages
  /\ pc' = parked[r].pc
  /\ iteration' = parked[r].iteration
  /\ response_text' = parked[r].response_text
  /\ tool_call' = parked[r].tool_call
  /\ returned' = parked[r].returned
  /\ exception' = parked[r].exception
  /\ input' = parked[r].input
  /\ calls' = parked[r].calls
  /\ executions' = parked[r].executions
  /\ UNCHANGED <<self, heap, lists, owner>>

NextConc ==
  \/ Start
  \/ LoopCallFails
  \/ \E text \in ConcOutputs : LoopCallReturns(text)
  \/ ExecuteTool
  \/ \E text \in ConcOutputs : ForcedCallReturns(text)
  \/ ForcedCallFails
  \/ \E r \in DOMAIN parked : Switch(r)

SpecConc == InitConc /\ [][NextConc]_vars

\* ------------------------------------------------- chat.py: runs in sequence
\* chat() keeps one list across all scenarios: it appends the user's question,
\* calls agent.run(messages) and appends the returned Message; when run raises
\* it prints the error and goes on to the next scenario.
ChatOutputs == {T_PLAIN, <<"Let me check the weather. ">> \o Block(J_WEATHER)}

\* Lines 138-151 for the first scenario
InitChat ==
  \E tools \in Registries, max_iterations \in 0..ChatIterationsBound :
    Entered(NewAgent(tools, max_iterations), <<Message(USER, Question, None)>>)

\* Lines 154-158, then lines 148-151 for the next scenario
ChatNext ==
  /\ pc \in {"returned", "raised"}
  /\ current < ChatRuns
  /\ LET appended == (IF pc = "returned" THEN <<returned>> ELSE <<>>)
                       \o <<Message(USER, Question, None)>>
         ids == [i \in 1..Len(appended) |-> Len(heap) + i]
     IN /\ heap' = heap \o appended
        /\ owner' = owner \o (IF pc = "returned" THEN <<current, 0>> ELSE <<0>>)
        /\ lists' = [lists EXCEPT ![input.list] = @ \o ids]
  /\ input' = [list |-> input.list, ids |-> lists'[input.list], objects |-> heap']
  /\ current' = current + 1
  /\ internal_messages' = NoList
  /\ final_messages' = NoList
  /\ pc' = "start"
  /\ iteration' = 0
  /\ response_text' = <<>>
  /\ tool_call' = PyNone
  /\ returned' = NoMessage
  /\ exception' = NoExc
  /\ calls' = <<>>
  /\ executions' = <<>>
  /\ UNCHANGED <<self, parked>>

NextChat ==
  \/ Start
  \/ LoopCallFails
  \/ \E text \in ChatOutputs : LoopCallReturns(text)
  \/ ExecuteTool
  \/ \E text \in ChatOutputs : ForcedCallReturns(text)
  \/ ForcedCallFails
  \/ ChatNext

SpecChat == InitChat /\ [][NextChat]_vars

\* ================================================================== claims
Finished == pc \in {"returned", "raised"}
LoopCalls == {k \in 1..Len(calls) : calls[k].kind = "loop"}
ForcedCalls == {k \in 1..Len(calls) : calls[k].kind = "forced"}
FailedCalls == {k \in 1..Len(calls) : calls[k].failed}

\* The text has a <tool_call>...</tool_call> region
HasRegion(text) ==
  \E o, c \in 1..Len(text) : o < c /\ text[o] = OPEN /\ text[c] = CLOSE

\* The text has a well-formed block: a region whose enclosed text parses to an
\* object with a name field
WellFormedBlock(text) ==
  /\ HasRegion(text)
  /\ LET loaded == json_loads(re_search(text).group1)
     IN loaded.ok /\ loaded.val.type = "dict" /\ "name" \in loaded.val.keys

\* C1: run leaves the caller-supplied message list unchanged: the same Message
\* objects in the same order, and no field of any of them modified, on every
\* path (plain answer, tool rounds, budget exhaustion, gateway failure).
C1_CallerHistoryUnchanged ==
  /\ lists[CallerList] = input.ids
  /\ \A i \in 1..Len(input.objects) : heap[i] = input.objects[i]

\* A run over a non-empty caller history that inserted its system prompt,
\* appended a tool round and went through the forced final call
C1_Witness ==
  /\ Finished
  /\ input.ids # <<>>
  /\ self.tools # <<>>
  /\ executions # <<>>
  /\ final_messages # NoList
  /\ Len(lists[internal_messages]) > Len(input.ids)

\* C2: a model output without a well-formed <tool_call> block ends the loop at
\* that call: nothing is appended, no tool is executed, no further model call
\* is issued and run returns an assistant Message with exactly that text.
C2_NoBlockEndsLoop ==
  \A k \in LoopCalls :
    (~calls[k].failed /\ ~WellFormedBlock(calls[k].text)) =>
      /\ k = Len(calls)
      /\ pc = "returned"
      /\ returned = Message(ASSISTANT, calls[k].text, None)
      /\ lists[internal_messages] = calls[k].ids
      /\ \A j \in 1..Len(executions) : executions[j].calls < k

\* C8: a region whose enclosed text fails to parse, is not an object, or is an
\* object without a name field is "no call": neither the parser nor run
\* raises, and the text is treated like plain prose.
C8_MalformedRegionIsNoCall ==
  \A k \in LoopCalls :
    (~calls[k].failed /\ HasRegion(calls[k].text) /\ ~WellFormedBlock(calls[k].text)) =>
      /\ ~parse_tool_call(calls[k].text).raised
      /\ parse_tool_call(calls[k].text).val = PyNone
      /\ pc # "raised"

\* C9: a model-gateway failure at any model call aborts run: the error is
\* raised to the caller, the failed call is the last model call (no retry, no
\* later call) and no tool execution follows it.
C9_GatewayFailureAborts ==
  \A k \in FailedCalls :
    /\ k = Len(calls)
    /\ pc = "raised"
    /\ exception = GatewayError
    /\ returned = NoMessage
    /\ \A j \in 1..Len(executions) : executions[j].calls < k

\* A gateway failure after a tool round, and one at the forced final call
C9_Witness ==
  /\ pc = "raised"
  /\ FailedCalls # {}
  /\ executions # <<>>
  /\ ForcedCalls # {}

\* C10: the only error a caller of run observes is a gateway failure: when no
\* model call fails, run does not raise and returns an assistant Message.
C10_OnlyGatewayErrors ==
  /\ pc = "raised" => (exception = GatewayError /\ FailedCalls # {})
  /\ (Finished /\ FailedCalls = {}) => (pc = "returned" /\ returned.role = ASSISTANT)

\* The requested name is that of no registered tool
Absent(name) == \A i \in 1..Len(self.tools) : self.tools[i].name # name

\* After tool execution j the next thing run does is a model call: exactly one
\* model call lies between it and the next tool execution or the end of run
NextModelCallFollows(j) ==
  IF j < Len(executions) THEN executions[j + 1].calls = executions[j].calls + 1
  ELSE Len(calls) = executions[j].calls + (IF pc = "loop" THEN 0 ELSE 1)

\* The stringified form of a handler's return value
Stringified(v) ==
  CASE v.type = "str" -> v.items
    [] v.type = "int" -> Digits(v.int)
    [] v.type = "NoneType" -> <<"None">>

IsIn(id, ids) == \E p \in 1..Len(ids) : ids[p] = id

\* C3: for a well-formed block naming a registered tool whose handler returns,
\* the appended tool_result Message has the stringified return value as its
\* content, and exactly one model call follows before any further execution.
C3_ResultIsStringifiedReturn ==
  \A j \in 1..Len(executions) :
    LET e == executions[j]
    IN (e.outcome.invoked /\ ~e.outcome.raised) =>
         /\ ~Absent(e.request.name)
         /\ heap[e.message] =
              Message(TOOL_RESULT, Stringified(e.outcome.val), e.request.name)
         /\ IsIn(e.message, lists[internal_messages])
         /\ NextModelCallFollows(j)

\* A finished run in which a handler returned the int 72 and a handler
\* returned a str, each found stringified in its tool_result
C3_Witness ==
  /\ Finished
  /\ \E j \in 1..Len(executions) :
       /\ executions[j].outcome.val = PyInt(72)
       /\ ~executions[j].outcome.raised
       /\ heap[executions[j].message].content = <<"7", "2">>
  /\ \E j \in 1..Len(executions) :
       /\ executions[j].outcome.val.type = "str"
       /\ heap[executions[j].message].content = executions[j].outcome.val.items

\* C4 as stated: for a name absent from the registry no handler is invoked,
\* the tool_result content is exactly "Tool '<name>' not found", and the loop
\* goes on to the next model call.
C4_NotFoundContentAsStated ==
  \A j \in 1..Len(executions) :
    LET e == executions[j]
    IN Absent(e.request.name) =>
         /\ ~e.outcome.invoked
         /\ heap[e.message] =
              Message(TOOL_RESULT, <<"Tool '", e.request.name, "' not found">>,
                      e.request.name)
         /\ NextModelCallFollows(j)

\* C4 amended: for a name absent from the registry (every name when the
\* registry is empty) no handler is invoked, the tool_result content is
\* exactly "Error: Tool '<name>' not found", run does not raise because of it
\* and the loop goes on to the next model call.
C4_NotFoundIsToolResult ==
  \A j \in 1..Len(executions) :
    LET e == executions[j]
    IN Absent(e.request.name) =>
         /\ ~e.outcome.invoked
         /\ heap[e.message] =
              Message(TOOL_RESULT, <<"Error: Tool '", e.request.name, "' not found">>,
                      e.request.name)
         /\ IsIn(e.message, lists[internal_messages])
         /\ NextModelCallFollows(j)
         /\ (pc = "raised" => Len(calls) > e.calls)

\* A finished run in which a request for an unregistered tool (the registry
\* being empty, or populated without that name) was followed by a model call
C4_Witness ==
  /\ Finished
  /\ \E j \in 1..Len(executions) :
       /\ Absent(executions[j].request.name)
       /\ Len(calls) > executions[j].calls
       /\ executions[j].request.name = "get_time" \/ self.tools = <<>>

\* C5: a failure of the handler call for a registered tool (exception in the
\* body, wrong keywords, parameters that are not a mapping) becomes a
\* tool_result starting with "Error executing tool '<name>':" and containing
\* the underlying message; run does not raise it, and the next model call is
\* issued with that tool_result in the history.
C5_HandlerFailureContained ==
  \A j \in 1..Len(executions) :
    LET e == executions[j]
        content == heap[e.message].content
    IN (e.outcome.invoked /\ e.outcome.raised) =>
         /\ ~Absent(e.request.name)
         /\ heap[e.message].role = TOOL_RESULT
         /\ Len(content) >= 3
         /\ SubSeq(content, 1, 3) = <<"Error executing tool '", e.request.name, "':">>
         /\ e.outcome.exc.msg # <<>>
         /\ HasSubSeq(content, e.outcome.exc.msg)
         /\ exception # e.outcome.exc
         /\ NextModelCallFollows(j)
         /\ \A k \in 1..Len(calls) : k > e.calls => IsIn(e.message, calls[k].ids)

\* A finished run in which one handler divided by zero and another call was
\* given parameters that are not a mapping, with a model call after each
C5_Witness ==
  /\ Finished
  /\ \E j \in 1..Len(executions) :
       /\ executions[j].outcome.exc.type = "ZeroDivisionError"
       /\ Len(calls) > executions[j].calls
  /\ \E j \in 1..Len(executions) :
       /\ executions[j].outcome.exc.type = "TypeError"
       /\ executions[j].request.parameters.type # "dict"
       /\ Len(calls) > executions[j].calls

\* C6: with max_iterations = N and a gateway that emits a valid directive on
\* every loop call, run performs exactly N tool executions and N + 1 model
\* calls, the last being the single forced call, whose text is returned as
\* the assistant Message without being parsed or causing a tool execution.
AlwaysDirective ==
  \A k \in LoopCalls : ~calls[k].failed /\ WellFormedBlock(calls[k].text)

C6_BudgetBoundary ==
  AlwaysDirective =>
    /\ Len(executions) <= self.max_iterations
    /\ Cardinality(LoopCalls) <= self.max_iterations
    /\ pc = "returned" =>
         /\ Len(executions) = self.max_iterations
         /\ Len(calls) = self.max_iterations + 1
         /\ ForcedCalls = {Len(calls)}
         /\ returned = Message(ASSISTANT, calls[Len(calls)].text, None)
         /\ \A j \in 1..Len(executions) : executions[j].calls < Len(calls)

\* A run with N >= 2 whose every loop output was a directive and whose forced
\* call returned a text that itself holds a well-formed block
C6_Witness ==
  /\ pc = "returned"
  /\ AlwaysDirective
  /\ self.max_iterations >= 2
  /\ Len(executions) = self.max_iterations
  /\ WellFormedBlock(returned.content)

\* C7: the history passed to the forced final call has exactly one system
\* message, at the front, which is the fixed out-of-budget text; every system
\* message of run's history is gone and all other messages are there in their
\* original relative order.
NonSystem(id) == heap[id].role # SYSTEM

C7_ForcedCallHistory ==
  \A k \in ForcedCalls :
    LET ids == calls[k].ids
    IN /\ ids # <<>>
       /\ heap[ids[1]].role = SYSTEM
       /\ heap[ids[1]].content = MaxIterationsSystemPrompt
       /\ HasSubSeq(heap[ids[1]].content, MAX_ITERATIONS_PROMPT)
       /\ {i \in 1..Len(ids) : heap[ids[i]].role = SYSTEM} = {1}
       /\ Tail(ids) = SelectSeq(lists[internal_messages], NonSystem)
       /\ \A i \in 1..Len(input.ids) : NonSystem(input.ids[i]) => IsIn(input.ids[i], ids)
       /\ \A j \in 1..Len(executions) :
            IsIn(executions[j].message, ids) /\ IsIn(executions[j].message - 1, ids)

\* A forced call after a tool round, from a history that held both the
\* synthesized prompt and a caller-supplied system message
C7_Witness ==
  /\ ForcedCalls # {}
  /\ self.tools # <<>>
  /\ executions # <<>>
  /\ \E i \in 1..Len(input.ids) : input.objects[input.ids[i]].role = SYSTEM
  /\ \E i \in 1..Len(input.ids) : input.objects[input.ids[i]].role = USER

\* The seeded history: the first messages of run's private list, as many as
\* the caller passed, one more when tools are registered
SeedLen == Len(input.ids) + (IF self.tools # <<>> THEN 1 ELSE 0)
Seed == SubSeq(lists[internal_messages], 1, SeedLen)

\* The system messages this invocation built from the Agent's prompt template
SynthesizedPrompts ==
  {i \in 1..Len(heap) : /\ owner[i] = current
                        /\ heap[i].role = SYSTEM
                        /\ heap[i].content # MaxIterationsSystemPrompt}

\* C11: seeding. With a non-empty registry the private history starts with
\* exactly one synthesized system-prompt Message, built once per run, followed
\* by the caller's messages in their order; with an empty registry no system
\* message is added and the seeded history is the caller's history exactly.
\* Caller-supplied system messages stay where they are in both cases.
C11_Seeding ==
  pc # "start" =>
    /\ Len(lists[internal_messages]) >= SeedLen
    /\ (calls # <<>> /\ calls[1].kind = "loop") => calls[1].ids = Seed
    /\ self.tools # <<>> =>
         /\ heap[Seed[1]].role = SYSTEM
         /\ heap[Seed[1]].tool_name = None
         /\ SubSeq(heap[Seed[1]].content, 1, 5) =
              <<"You are ", self.agent_name, ". ", self.agent_description, "\n\n">>
         /\ \A i \in 1..Len(self.tools) :
              HasSubSeq(heap[Seed[1]].content, <<"  ", self.tools[i].name, ": ">>)
         /\ SynthesizedPrompts = {Seed[1]}
         /\ ~IsIn(Seed[1], input.ids)
         /\ Tail(Seed) = input.ids
    /\ self.tools = <<>> =>
         /\ SynthesizedPrompts = {}
         /\ Seed = input.ids
    /\ \A i \in 1..Len(input.ids) :
         input.objects[input.ids[i]].role = SYSTEM =>
           /\ Seed[i + SeedLen - Len(input.ids)] = input.ids[i]
           /\ heap[input.ids[i]] = input.objects[input.ids[i]]

\* A run with tools registered, over a caller history that holds a system
\* message of its own, at its first model call after seeding
C11_Witness ==
  /\ Len(calls) = 1
  /\ calls[1].kind = "loop"
  /\ self.tools # <<>>
  /\ Len(calls[1].ids) = Len(input.ids) + 1
  /\ \E i \in 1..Len(input.ids) : heap[input.ids[i]].role = SYSTEM

\* The text between the first opening tag that is closed and the nearest
\* closing tag after it
FirstRegionBody(text) ==
  LET closed(o) == text[o] = OPEN /\ \E c \in (o + 1)..Len(text) : text[c] = CLOSE
      o == CHOOSE p \in 1..Len(text) : closed(p) /\ \A q \in 1..(p - 1) : ~closed(q)
      c == CHOOSE p \in (o + 1)..Len(text) :
             text[p] = CLOSE /\ \A q \in (o + 1)..(p - 1) : text[q] # CLOSE
  IN SubSeq(text, o + 1, c - 1)

\* The first region of the text holds an object with a name field
FirstRegionWellFormed(text) ==
  /\ HasRegion(text)
  /\ LET loaded == json_loads(FirstRegionBody(text))
     IN loaded.ok /\ loaded.val.type = "dict" /\ "name" \in loaded.val.keys

\* The tool executions that model call k led to
ExecutionsOf(k) == {j \in 1..Len(executions) : executions[j].calls = k}

\* The Messages of a role that this invocation created
Created(role) == {i \in 1..Len(heap) : owner[i] = current /\ heap[i].role = role}

\* C12: at most one tool call is acted on per model response. Only the first
\* delimited region of the text is parsed; a response leads to at most one
\* execution (one handler invocation at most), for the directive of that first
\* region, and to exactly one tool_call/tool_result pair; when the first
\* region is malformed no tool is executed for the response, even when a
\* later block of the same text is well-formed.
C12_OneCallPerResponse ==
  /\ \A k \in LoopCalls :
       /\ Cardinality(ExecutionsOf(k)) <= 1
       /\ \A j \in ExecutionsOf(k) :
            /\ ~calls[k].failed
            /\ FirstRegionWellFormed(calls[k].text)
            /\ executions[j].request = json_loads(FirstRegionBody(calls[k].text)).val
       /\ (k < Len(calls) /\ calls[k + 1].kind = "loop") =>
            /\ Len(calls[k + 1].ids) = Len(calls[k].ids) + 2
            /\ heap[calls[k + 1].ids[Len(calls[k].ids) + 1]].role = TOOL_CALL
            /\ heap[calls[k + 1].ids[Len(calls[k].ids) + 2]].role = TOOL_RESULT
  /\ \A k \in ForcedCalls : ExecutionsOf(k) = {}
  /\ Cardinality(Created(TOOL_RESULT)) = Len(executions)
  /\ Cardinality(Created(TOOL_CALL)) = Len(executions) + (IF pc = "execute" THEN 1 ELSE 0)

\* A run whose first response held two well-formed blocks, of which the first
\* alone was executed, and whose second response held a malformed block before
\* a well-formed one and was returned as the answer
C12_Witness ==
  /\ pc = "returned"
  /\ Len(calls) = 2
  /\ calls[1].text = T_TWO_CALLS
  /\ calls[2].text = T_TWO_BLOCKS
  /\ Len(executions) = 1
  /\ executions[1].request.name = "get_weather"
  /\ executions[1].outcome.invoked
  /\ returned.content = T_TWO_BLOCKS

\* The same directive with an explicit empty parameters object
WithEmptyParameters(request) == PyDict(request.keys \cup {"parameters"}, request.name, ParamDict(<<>>))

\* C17: a well-formed directive that omits parameters is a valid call with an
\* empty parameter mapping: it is executed, and acted on exactly like the same
\* directive with "parameters": {} (the handler is called with no arguments,
\* the same outcomes are possible and the same tool_result follows).
C17_MissingParametersIsEmpty ==
  /\ \A k \in LoopCalls :
       (/\ ~calls[k].failed
        /\ FirstRegionWellFormed(calls[k].text)
        /\ "parameters" \notin json_loads(FirstRegionBody(calls[k].text)).val.keys) =>
          \/ ExecutionsOf(k) # {}
          \/ (k = Len(calls) /\ pc = "execute")
  /\ \A j \in 1..Len(executions) :
       LET e == executions[j]
           same == WithEmptyParameters(e.request)
       IN "parameters" \notin e.request.keys =>
            /\ ToolOutcomes(self.tools, e.request) = ToolOutcomes(self.tools, same)
            /\ e.outcome \in ToolOutcomes(self.tools, same)
            /\ heap[e.message] =
                 Message(TOOL_RESULT, execute_tool(same, e.outcome), same.name)
            /\ (e.request.name = "custom_tool" /\ ~Absent("custom_tool")) =>
                 /\ e.outcome.invoked
                 /\ e.outcome \in custom_callable

\* A run in which the tool without parameters was requested once with no
\* parameters field and once with an empty one, and the handler returned the
\* same value both times, giving the same tool_result content
C17_Witness ==
  /\ Len(executions) = 2
  /\ calls[1].text = Block(J_CUSTOM_NO_PARAMETERS)
  /\ calls[2].text = Block(J_CUSTOM)
  /\ executions[1].outcome = HandlerReturned(PyInt(72))
  /\ executions[2].outcome = executions[1].outcome
  /\ heap[executions[1].message] = heap[executions[2].message]

\* s is a prefix of t
IsPrefix(s, t) == Len(s) <= Len(t) /\ SubSeq(t, 1, Len(s)) = s

\* The private history is the seeded history followed by k adjacent
\* (tool_call, tool_result) pairs, those of the first k tool executions
SeedAndPairs(ids, k) ==
  /\ Len(ids) = SeedLen + 2 * k
  /\ SubSeq(ids, 1, SeedLen) = Seed
  /\ \A j \in 1..k :
       LET e == executions[j]
       IN /\ heap[ids[SeedLen + 2 * j - 1]] =
               Message(TOOL_CALL, calls[e.calls].text, e.request.name)
          /\ ids[SeedLen + 2 * j] = e.message
          /\ heap[e.message].role = TOOL_RESULT
          /\ heap[e.message].content = execute_tool(e.request, e.outcome)
          /\ heap[e.message].tool_name = e.request.name
          /\ e.request = parse_tool_call(calls[e.calls].text).val

\* C18: history shape. At every model call of the loop and at return the
\* private history is the seeded history followed by k adjacent (tool_call,
\* tool_result) pairs, k the number of tool executions so far; the tool_call
\* holds the raw model text, the tool_result the invoker's result, both carry
\* the parsed name. Existing messages are never removed, reordered or changed,
\* and the final answer is never appended.
C18_HistoryShape ==
  /\ \A k \in LoopCalls :
       /\ SeedAndPairs(calls[k].ids, Cardinality({j \in 1..Len(executions) :
                                                   executions[j].calls < k}))
       /\ IsPrefix(calls[k].ids, lists[internal_messages])
  /\ \A k \in ForcedCalls :
       SeedAndPairs(lists[internal_messages], Len(executions))
  /\ pc = "loop" => SeedAndPairs(lists[internal_messages], Len(executions))
  /\ Finished =>
       /\ SeedAndPairs(lists[internal_messages], Len(executions))
       /\ \A i \in 1..Len(lists[internal_messages]) :
            heap[lists[internal_messages][i]].role # ASSISTANT
              \/ IsIn(lists[internal_messages][i], input.ids)
  /\ \A i \in 1..Len(input.objects) : heap[i] = input.objects[i]

\* One user message, tools registered, one tool round, then the answer: the
\* private history holds exactly system, user, tool_call, tool_result
C18_Witness ==
  /\ pc = "returned"
  /\ Len(input.ids) = 1
  /\ self.tools # <<>>
  /\ Len(executions) = 1
  /\ [i \in 1..Len(lists[internal_messages]) |-> heap[lists[internal_messages][i]].role]
       = <<SYSTEM, USER, TOOL_CALL, TOOL_RESULT>>
  /\ returned.role = ASSISTANT

\* C19: no pipelining within a run. Model calls and tool executions alternate
\* in one total order: the j-th execution follows the j-th model call, which
\* has returned the directive it executes; between two consecutive model
\* calls there is exactly one tool execution, complete, whose tool_result is
\* in the history passed to the later call; no model call is issued while a
\* requested execution is pending.
C19_NoPipelining ==
  /\ \A j \in 1..Len(executions) :
       /\ executions[j].calls = j
       /\ ~calls[j].failed
       /\ executions[j].request = parse_tool_call(calls[j].text).val
  /\ \A k \in 1..(Len(calls) - 1) :
       /\ ExecutionsOf(k) = {k}
       /\ IsIn(executions[k].message, calls[k + 1].ids)
       /\ heap[executions[k].message].role = TOOL_RESULT
       /\ calls[k + 1].ids[Len(calls[k + 1].ids)] = executions[k].message
  /\ pc = "execute" => Len(calls) = Len(executions) + 1
  /\ pc = "loop" => Len(calls) = Len(executions)
  /\ Len(calls) - Len(executions) \in {0, 1}

\* A finished run with two tool rounds and three model calls
C19_Witness ==
  /\ Finished
  /\ Len(executions) = 2
  /\ Len(calls) = 3
  /\ executions[1].outcome.invoked
  /\ executions[2].outcome.invoked

\* C20: bounded termination. A run issues at most max_iterations + 1 model
\* calls and at most max_iterations tool executions; when no model call fails
\* it ends by returning exactly one assistant Message (after a plain answer or
\* after the forced call); it never ends between appending a tool_call and
\* its tool_result.
C20_BoundedTermination ==
  /\ Len(calls) <= self.max_iterations + 1
  /\ Len(executions) <= self.max_iterations
  /\ (Finished /\ FailedCalls = {}) =>
       /\ pc = "returned"
       /\ returned.role = ASSISTANT
       /\ returned.content = calls[Len(calls)].text
  /\ Finished =>
       Cardinality(Created(TOOL_CALL)) = Cardinality(Created(TOOL_RESULT))
  /\ pc = "execute" => ENABLED ExecuteTool

\* The role a message is to have as a conversation turn, and its content there
TurnRole(m, provider) ==
  CASE m.role \in {USER, TOOL_RESULT} -> "user"
    [] m.role \in {ASSISTANT, TOOL_CALL} -> IF provider = GEMINI THEN "model" ELSE "assistant"
TurnContent(m) ==
  IF m.role = TOOL_RESULT THEN <<"Tool result from ", m.tool_name, ":", "\n">> \o m.content
  ELSE m.content

IsNotSystem(m) == m.role # SYSTEM
IsNotSystemTurn(t) == t.role # "system"

\* The history passed to model call k, and its messages that are not system
\* messages, in order
Passed(k) == Contents(heap, calls[k].ids)
Conversation(k) == SelectSeq(Passed(k), IsNotSystem)

\* What the backend is given for the messages that are not system messages,
\* in order: the turns, and for Gemini the text sent after them, which stands
\* for the last message unless that is a system message
Delivered(k) ==
  LET request == calls[k].request
      passed == Passed(k)
  IN CASE request.provider = OPENAI -> SelectSeq(request.turns, IsNotSystemTurn)
       [] request.provider = ANTHROPIC -> request.turns
       [] request.provider = GEMINI ->
            request.turns \o
              (IF passed # <<>> /\ passed[Len(passed)].role # SYSTEM
               THEN <<Turn("user", request.message)>> ELSE <<>>)

\* C15 as stated: every adapter keeps the order of the messages that are not
\* system messages and maps user -> user, assistant -> assistant (model),
\* tool_call -> assistant (model) with the same content, tool_result -> user
\* with "Tool result from <tool_name>:", a newline and the result; user and
\* assistant content is passed through unchanged.
C15_AdaptersAsStated ==
  \A k \in 1..Len(calls) :
    Delivered(k) = [i \in 1..Len(Conversation(k)) |->
                      Turn(TurnRole(Conversation(k)[i], calls[k].request.provider),
                           TurnContent(Conversation(k)[i]))]

\* What the Gemini adapter puts in front of the first user message: the
\* contents of the system messages joined by blank lines, then a blank line
GeminiSystemPrefix(k) ==
  IF \E i \in 1..Len(Passed(k)) : Passed(k)[i].role = SYSTEM
  THEN JoinBlankLine(SystemMessages(Passed(k))) \o <<"\n\n">> ELSE <<>>

IsFirstUser(conversation, i) ==
  /\ conversation[i].role = USER
  /\ \A p \in 1..(i - 1) : conversation[p].role # USER

\* C15 amended: the OpenAI and Anthropic adapters do as stated. The Gemini
\* adapter keeps the same order and contents with two differences: the
\* content of the first user message is preceded by the contents of all
\* system messages (joined by blank lines, followed by a blank line), and the
\* last message of the history, unless it is a system message, is not a turn
\* of the chat history but the text that is sent, whatever its role; the
\* messages before it become turns with the roles user -> user, assistant and
\* tool_call -> model, tool_result -> user.
C15_AdaptersOrderAndRoles ==
  \A k \in 1..Len(calls) :
    LET conversation == Conversation(k)
        provider == calls[k].request.provider
        delivered == Delivered(k)
    IN /\ Len(delivered) = Len(conversation)
       /\ provider \in {OPENAI, ANTHROPIC} =>
            \A i \in 1..Len(conversation) :
              delivered[i] = Turn(TurnRole(conversation[i], provider),
                                  TurnContent(conversation[i]))
       /\ provider = GEMINI =>
            /\ \A i \in 1..Len(conversation) :
                 delivered[i].content =
                   (IF IsFirstUser(conversation, i) THEN GeminiSystemPrefix(k) ELSE <<>>)
                     \o TurnContent(conversation[i])
            /\ \A i \in 1..Len(calls[k].request.turns) :
                 delivered[i].role = TurnRole(conversation[i], provider)
            /\ (Passed(k) = <<>> \/ Passed(k)[Len(Passed(k))].role = SYSTEM) =>
                 calls[k].request.message = <<>>

\* A model call through the Gemini adapter after a tool round, from a history
\* with a caller-supplied system message, user and assistant messages
C15_Witness ==
  \E k \in 1..Len(calls) :
    /\ calls[k].request.provider = GEMINI
    /\ self.tools # <<>>
    /\ \E i \in 1..Len(input.ids) : heap[input.ids[i]].role = SYSTEM
    /\ \E i \in 1..Len(input.ids) : heap[input.ids[i]].role = ASSISTANT
    /\ Passed(k)[Len(Passed(k))].role = TOOL_RESULT
    /\ \E i \in 1..Len(calls[k].request.turns) :
         /\ calls[k].request.turns[i].role = "user"
         /\ IsPrefix(GeminiSystemPrefix(k), calls[k].request.turns[i].content)
    /\ \E i \in 1..Len(calls[k].request.turns) : calls[k].request.turns[i].role = "model"

\* The text is given to the backend: as a system turn, inside the system
\* parameter, or inside a turn or the sent text
ReachesBackend(request, text) ==
  CASE request.provider = OPENAI ->
         \E i \in 1..Len(request.turns) : request.turns[i] = Turn("system", text)
    [] request.provider = ANTHROPIC ->
         request.has_system /\ HasSubSeq(request.system, text)
    [] request.provider = GEMINI ->
         \/ \E i \in 1..Len(request.turns) : HasSubSeq(request.turns[i].content, text)
         \/ HasSubSeq(request.message, text)

\* C16: for every history passed to an adapter, the content of every system
\* message reaches the backend, through the system parameter or merged into
\* the turns, whatever the shape of the history (empty caller history, no
\* user-role message, a system message last).
C16_SystemReachesBackend ==
  \A k \in 1..Len(calls) :
    \A i \in 1..Len(Passed(k)) :
      Passed(k)[i].role = SYSTEM => ReachesBackend(calls[k].request, Passed(k)[i].content)

\* The invocations of run, and the locals of each
Invocations == {current} \cup DOMAIN parked
LocalsOf(r) == IF r = current THEN Locals ELSE parked[r]

\* A Message is invocation r's own: its caller passed it, or r created it
OwnMessage(r, id) == IsIn(id, LocalsOf(r).input.ids) \/ owner[id] = r

\* Invocation r's private history is its seeded history and the messages of
\* its own tool rounds, nothing else
PrivateHistoryOf(r) ==
  LET locals == LocalsOf(r)
      ids == lists[locals.internal_messages]
      seeded == Len(locals.input.ids) + (IF self.tools # <<>> THEN 1 ELSE 0)
  IN locals.internal_messages # NoList =>
       /\ Len(ids) = seeded + 2 * Len(locals.executions)
                       + (IF locals.pc = "execute" THEN 1 ELSE 0)
       /\ SubSeq(ids, seeded - Len(locals.input.ids) + 1, seeded) = locals.input.ids
       /\ \A i \in 1..Len(ids) : OwnMessage(r, ids[i])
       /\ \A i \in 1..Len(ids) :
            (i <= seeded - Len(locals.input.ids) \/ i > seeded) => owner[ids[i]] = r
       /\ \A j \in 1..Len(locals.executions) :
            /\ ids[seeded + 2 * j] = locals.executions[j].message
            /\ heap[ids[seeded + 2 * j - 1]] =
                 Message(TOOL_CALL, locals.calls[j].text, locals.executions[j].request.name)
       /\ \A k \in 1..Len(locals.calls) :
            \A i \in 1..Len(locals.calls[k].ids) : OwnMessage(r, locals.calls[k].ids[i])

\* The list objects an invocation works on are its alone
PrivateListsOf(r) ==
  LET locals == LocalsOf(r)
      mine == {locals.internal_messages, locals.final_messages} \ {NoList}
  IN \A q \in Invocations \ {r} :
       mine \cap {LocalsOf(q).internal_messages, LocalsOf(q).final_messages,
                  LocalsOf(q).input.list} = {}

\* No step writes the Agent, and no step changes a Message object or a
\* caller's list
SharedStateReadOnly ==
  /\ self' = self
  /\ \A i \in 1..Len(heap) : heap'[i] = heap[i]
  /\ \A r \in Invocations : lists'[LocalsOf(r).input.list] = lists[LocalsOf(r).input.list]

\* C13: concurrent invocations of run on one Agent do not interfere, under
\* any interleaving: each invocation's private history holds only its own
\* caller's messages, its own system prompt and its own tool_call/tool_result
\* messages, in lists no other invocation touches, and no invocation writes
\* the Agent's registry or configuration.
C13_NoInterference ==
  /\ [](\A r \in Invocations : PrivateHistoryOf(r) /\ PrivateListsOf(r))
  /\ [][SharedStateReadOnly]_vars

\* Both invocations have finished after a tool round each, their steps having
\* been interleaved: the second one's system prompt was created between the
\* first one's system prompt and the first one's tool_result
C13_Witness ==
  /\ DOMAIN parked # {}
  /\ \A r \in Invocations :
       LocalsOf(r).pc = "returned" /\ Len(LocalsOf(r).executions) = 1
  /\ \E a, b, c \in 1..Len(heap) :
       /\ a < b /\ b < c
       /\ owner[a] = 1 /\ owner[b] = 2 /\ owner[c] = 1
       /\ heap[b].role = SYSTEM
       /\ heap[c].role = TOOL_RESULT

\* The history the first model call of a run must be given, computed from the
\* Agent and the caller's list alone
FirstHistoryFromInput ==
  LET given == Contents(input.objects, input.ids)
  IN IF calls[1].kind = "loop"
     THEN (IF self.tools # <<>>
           THEN <<Message(SYSTEM, build_system_prompt(self), None)>> ELSE <<>>) \o given
     ELSE <<Message(SYSTEM, MaxIterationsSystemPrompt, None)>> \o SelectSeq(given, IsNotSystem)

\* C14: run is a function of its input history and of the gateway's and the
\* tools' responses only. Whatever number of runs preceded it on the same
\* Agent: the first model call is given what the caller's list and the Agent
\* determine; when the gateway answers with the same text T holding no tool
\* call, run returns an assistant Message with content T; and no system
\* prompt, tool_call or tool_result Message created inside an earlier run is
\* passed to the gateway, only Messages the caller put into the input.
C14_RunsAreIndependent ==
  /\ calls # <<>> => Passed(1) = FirstHistoryFromInput
  /\ (Finished /\ \A k \in 1..Len(calls) : ~calls[k].failed /\ calls[k].text = T_PLAIN) =>
       /\ pc = "returned"
       /\ returned = Message(ASSISTANT, T_PLAIN, None)
       /\ Len(calls) = 1
       /\ executions = <<>>
  /\ \A k \in 1..Len(calls) :
       \A i \in 1..Len(calls[k].ids) :
         owner[calls[k].ids[i]] \notin {0, current} => IsIn(calls[k].ids[i], input.ids)
  /\ \A i \in 1..Len(input.ids) :
       heap[input.ids[i]].role \in {SYSTEM, TOOL_CALL, TOOL_RESULT} => owner[input.ids[i]] = 0
  /\ pc = "start" => (iteration = 0 /\ internal_messages = NoList)

\* A second run that returned T after a first run with a tool round whose
\* answer the caller appended to the conversation
C14_Witness ==
  /\ current = 2
  /\ pc = "returned"
  /\ returned = Message(ASSISTANT, T_PLAIN, None)
  /\ self.tools # <<>>
  /\ \E i \in 1..Len(heap) : owner[i] = 1 /\ heap[i].role = TOOL_RESULT
  /\ \E i \in 1..Len(input.ids) :
       owner[input.ids[i]] = 1 /\ heap[input.ids[i]].role = ASSISTANT

\* The first model call of the run is a loop call on the seeded history, with
\* the system prompt built from the registry in front when tools exist
FirstCallIsLoopCallOnSeed ==
  /\ calls[1].kind = "loop"
  /\ calls[1].list = internal_messages
  /\ calls[1].ids = Seed
  /\ self.tools # <<>> =>
       heap[calls[1].ids[1]] = Message(SYSTEM, build_system_prompt(self), None)

\* The text the first model call returned went through _parse_tool_call: the
\* run either raised out of the parse, returned the text as the answer because
\* no call was found, or went on with the parsed request
FirstOutputParsed ==
  (Len(calls) = 1 /\ ~calls[1].failed) =>
    LET parsed == parse_tool_call(calls[1].text)
    IN /\ response_text = calls[1].text
       /\ pc \in {"execute", "loop"} => (~parsed.raised /\ tool_call = parsed.val)
       /\ pc = "returned" =>
            (~parsed.raised /\ ~Truthy(parsed.val)
             /\ returned = Message(ASSISTANT, calls[1].text, None))
       /\ parsed.raised => pc = "raised"

\* C21, as stated: for every max_iterations value the first model call of a
\* run is a loop call on the seeded history whose output is parsed for a tool
\* call, and the forced call with the out-of-budget system message is made
\* only after at least one tool call has been executed.
C21_FirstCallAsStated ==
  /\ calls # <<>> => (FirstCallIsLoopCallOnSeed /\ FirstOutputParsed)
  /\ ForcedCalls # {} => executions # <<>>

\* C21, amended: the budget is checked before every model call of the loop,
\* the first included. With max_iterations >= 1 the first model call is a loop
\* call on the seeded history whose output is parsed, and the forced call
\* comes only after max_iterations tool calls have been executed. With
\* max_iterations = 0 the loop body never runs: the only model call of the run
\* is the forced one, on the caller's non-system messages behind the
\* out-of-budget system message, nothing is parsed and no tool is executed.
C21_BudgetCheckedBeforeEveryLoopCall ==
  /\ (self.max_iterations >= 1 /\ calls # <<>>) =>
       (FirstCallIsLoopCallOnSeed /\ FirstOutputParsed)
  /\ (self.max_iterations >= 1 /\ ForcedCalls # {}) =>
       (executions # <<>> /\ Len(executions) = self.max_iterations)
  /\ self.max_iterations = 0 =>
       /\ LoopCalls = {}
       /\ executions = <<>>
       /\ Len(calls) <= 1
       /\ tool_call = PyNone
       /\ calls # <<>> =>
            /\ heap[calls[1].ids[1]] = Message(SYSTEM, MaxIterationsSystemPrompt, None)
            /\ Tail(calls[1].ids) = SelectSeq(input.ids, NonSystem)
       /\ pc = "returned" => returned = Message(ASSISTANT, calls[1].text, None)

\* A run with a budget of one that executed a tool call after its first model
\* call and then made the forced call
C21_Witness ==
  /\ self.max_iterations = 1
  /\ self.tools # <<>>
  /\ Len(calls) = 2
  /\ calls[1].kind = "loop"
  /\ calls[2].kind = "forced"
  /\ Len(executions) = 1
  /\ pc = "returned"

\* The tools registered under the name a request asks for, by position
RegisteredAs(name) == {i \in 1..Len(self.tools) : self.tools[i].name = name}

\* The parameters a request carries, an empty mapping when it carries none
RequestParameters(request) ==
  IF "parameters" \in request.keys THEN request.parameters ELSE ParamDict(<<>>)

\* C22: dispatch by name. For every parsed request the handler invoked is that
\* of a registered tool whose name equals the requested name, invoked once
\* with the request's parameters, and no other handler is invoked (none at all
\* when no tool has that name). A registry with duplicate names is accepted at
\* construction; the first tool in registration order with the requested name
\* is the one invoked, and a later tool of the same name is never invoked.
C22_DispatchByName ==
  /\ \A k \in LoopCalls : Cardinality(ExecutionsOf(k)) <= 1
  /\ \A j \in 1..Len(executions) :
       LET e == executions[j]
           named == RegisteredAs(e.request.name)
           params == RequestParameters(e.request)
       IN /\ named = {} => (e.tool = 0 /\ ~e.outcome.invoked)
          /\ named # {} =>
               /\ e.tool \in named
               /\ \A i \in named : e.tool <= i
               /\ e.outcome.invoked
               /\ e.outcome \in Invoke(self.tools[e.tool].function, params)
               /\ \A i \in named \ {e.tool} :
                    e.outcome \notin Invoke(self.tools[i].function, params)
          /\ heap[e.message] =
               Message(TOOL_RESULT, execute_tool(e.request, e.outcome), e.request.name)

\* An Agent constructed with two tools of one name that executed a request for
\* that name: the first one's handler ran and returned
C22_Witness ==
  /\ Len(self.tools) = 2
  /\ self.tools[1].name = self.tools[2].name
  /\ self.tools[1].function # self.tools[2].function
  /\ \E j \in 1..Len(executions) :
       /\ executions[j].request.name = self.tools[1].name
       /\ executions[j].tool = 1
       /\ executions[j].outcome.invoked
       /\ ~executions[j].outcome.raised

====
